---------------------------- MODULE Spec2Model ----------------------------
(***************************************************************************)
(* A model of job_bot_daily_excel.py: the SerpAPI search client and detail *)
(* fetcher with their retry loops, the field extractors, normalize_row,    *)
(* and the filter / dedupe / recency / sort pipeline of main().            *)
(*                                                                         *)
(* Text is modelled by TLA+ strings, read character by character           *)
(* (Len, SubSeq, \o), so lower(), strip(), the "in" substring test,        *)
(* startswith() and the regular expressions of posted_days are computed,   *)
(* not assumed.  A JSON object is a function whose DOMAIN is the set of    *)
(* keys present; a missing key and a JSON null are the same thing to       *)
(* every `x.get(k) or default` of the source.                              *)
(***************************************************************************)
EXTENDS Integers, Sequences, FiniteSets, TLC

(***************************************************************************)
(* Strings                                                                 *)
(***************************************************************************)
UpperCase == "ABCDEFGHIJKLMNOPQRSTUVWXYZ"
LowerCase == "abcdefghijklmnopqrstuvwxyz"
Digits == "0123456789"
WhiteSpace == {" ", "\t", "\n", "\r", "\f"}

CharAt(s, i) == SubSeq(s, i, i)

IndexIn(alphabet, c) ==
    IF \E i \in 1..Len(alphabet) : CharAt(alphabet, i) = c
    THEN CHOOSE i \in 1..Len(alphabet) : CharAt(alphabet, i) = c
    ELSE 0

UpperChars == {CharAt(UpperCase, i) : i \in 1..Len(UpperCase)}
DigitChars == {CharAt(Digits, i) : i \in 1..Len(Digits)}

\* The lower-case letter of each upper-case one.
ToLower == [c \in UpperChars |-> CharAt(LowerCase, IndexIn(UpperCase, c))]

LowerChar(c) == IF c \in UpperChars THEN ToLower[c] ELSE c

RECURSIVE Lower(_)
Lower(s) ==
    IF s = "" THEN "" ELSE LowerChar(CharAt(s, 1)) \o Lower(SubSeq(s, 2, Len(s)))

RECURSIVE LStrip(_)
LStrip(s) ==
    IF s # "" /\ CharAt(s, 1) \in WhiteSpace THEN LStrip(SubSeq(s, 2, Len(s))) ELSE s

RECURSIVE RStrip(_)
RStrip(s) ==
    IF s # "" /\ CharAt(s, Len(s)) \in WhiteSpace
    THEN RStrip(SubSeq(s, 1, Len(s) - 1))
    ELSE s

Strip(s) == RStrip(LStrip(s))

\* Python's `sub in s`
Contains(s, sub) ==
    \E i \in 1..(Len(s) - Len(sub) + 1) : SubSeq(s, i, i + Len(sub) - 1) = sub

\* Python's s.startswith(prefix)
StartsWith(s, prefix) ==
    Len(prefix) <= Len(s) /\ SubSeq(s, 1, Len(prefix)) = prefix

IsDigit(c) == c \in DigitChars

\* int() of a run of decimal digits
RECURSIVE ParseInt(_)
ParseInt(s) ==
    IF s = "" THEN 0
    ELSE 10 * ParseInt(SubSeq(s, 1, Len(s) - 1)) + (IndexIn(Digits, CharAt(s, Len(s))) - 1)

\* The index of the last digit of the run of digits that starts at i.
RECURSIVE DigitRunEnd(_, _)
DigitRunEnd(s, i) ==
    IF i < Len(s) /\ IsDigit(CharAt(s, i + 1)) THEN DigitRunEnd(s, i + 1) ELSE i

\* The index of the first character at or after i that is not white space.
RECURSIVE SkipSpace(_, _)
SkipSpace(s, i) ==
    IF i <= Len(s) /\ CharAt(s, i) \in WhiteSpace THEN SkipSpace(s, i + 1) ELSE i

\* Whether (\d+)\s+<unit> matches s starting at index i.
MatchesAt(s, i, unit) ==
    /\ i <= Len(s)
    /\ IsDigit(CharAt(s, i))
    /\ LET e == DigitRunEnd(s, i)
           k == SkipSpace(s, e + 1)
       IN  /\ k > e + 1
           /\ k + Len(unit) - 1 <= Len(s)
           /\ SubSeq(s, k, k + Len(unit) - 1) = unit

\* re.search(r"(\d+)\s+<unit>", s): whether there is a match, and group(1) of
\* the leftmost one.
ReMatches(s, unit) == \E i \in 1..Len(s) : MatchesAt(s, i, unit)

ReGroup(s, unit) ==
    LET i == CHOOSE i \in 1..Len(s) :
                 /\ MatchesAt(s, i, unit)
                 /\ \A j \in 1..(i - 1) : ~MatchesAt(s, j, unit)
    IN  SubSeq(s, i, DigitRunEnd(s, i))

(***************************************************************************)
(* JSON access: job.get(k) or default                                      *)
(***************************************************************************)
NA == "N/A"
EmptyMap == [k \in {} |-> ""]

Has(obj, k) == k \in DOMAIN obj
GetStr(obj, k) == IF Has(obj, k) THEN obj[k] ELSE ""
GetList(obj, k) == IF Has(obj, k) THEN obj[k] ELSE <<>>
GetMap(obj, k) == IF Has(obj, k) THEN obj[k] ELSE EmptyMap

(***************************************************************************)
(* Module constants                                                        *)
(***************************************************************************)
ROLE_KEYWORDS == <<"Food Safety Supervisor", "Food Safety Supervisor FSQA">>

FOOD_HINTS ==
    {"food", "foods", "food manufacturing", "food processing", "plant", "production",
     "warehouse", "haccp", "sqf", "fsqa", "gmp", "sanitation", "usda", "fda",
     "meat", "poultry", "dairy", "bakery", "beverage", "produce"}

ALLOWED_SOURCES == {"indeed", "linkedin", "glassdoor", "ziprecruiter"}

(***************************************************************************)
(* Helpers                                                                 *)
(***************************************************************************)
normalize_source(via_value) ==
    LET s == Lower(Strip(via_value))
    IN  IF Contains(s, "indeed") THEN "Indeed"
        ELSE IF Contains(s, "linkedin") THEN "LinkedIn"
        ELSE IF Contains(s, "glassdoor") THEN "Glassdoor"
        ELSE IF Contains(s, "ziprecruiter") THEN "ZipRecruiter"
        ELSE ""

is_allowed_source(via_value) ==
    LET s == Lower(via_value)
    IN  \E x \in ALLOWED_SOURCES : Contains(s, x)

\* links[0].get("link") or "", then the http test
FirstLink(list) ==
    IF list # <<>>
    THEN LET link == GetStr(list[1], "link")
         IN  IF StartsWith(link, "http") THEN link ELSE NA
    ELSE NA

safe_apply_link(job) == FirstLink(GetList(job, "related_links"))

safe_apply_link_from_details(details) == FirstLink(GetList(details, "apply_options"))

IsPayText(item) ==
    Contains(item, "$") \/ Contains(Lower(item), "hour") \/ Contains(Lower(item), "year")

IsTimeText(item) ==
    \/ Contains(Lower(item), "ago")
    \/ Contains(Lower(item), "today")
    \/ Contains(Lower(item), "yesterday")
    \/ Contains(Lower(item), "posted")

\* for item in ext: if <pay test>(item): return item  ... return "N/A"
FirstPayItem(ext) ==
    IF \E i \in 1..Len(ext) : IsPayText(ext[i])
    THEN ext[CHOOSE i \in 1..Len(ext) :
                 IsPayText(ext[i]) /\ \A j \in 1..(i - 1) : ~IsPayText(ext[j])]
    ELSE NA

\* for item in ext: if <time test>(item): return item  ... return "N/A"
FirstTimeItem(ext) ==
    IF \E i \in 1..Len(ext) : IsTimeText(ext[i])
    THEN ext[CHOOSE i \in 1..Len(ext) :
                 IsTimeText(ext[i]) /\ \A j \in 1..(i - 1) : ~IsTimeText(ext[j])]
    ELSE NA

safe_pay(job) ==
    LET de == GetMap(job, "detected_extensions")
    IN  IF GetStr(de, "salary") # "" THEN de["salary"]
        ELSE FirstPayItem(GetList(job, "extensions"))

safe_pay_from_details(details) ==
    LET de == GetMap(details, "detected_extensions")
    IN  IF GetStr(de, "salary") # "" THEN de["salary"] ELSE NA

safe_time_posted(job) ==
    LET de == GetMap(job, "detected_extensions")
    IN  IF GetStr(de, "posted_at") # "" THEN de["posted_at"]
        ELSE FirstTimeItem(GetList(job, "extensions"))

safe_time_posted_from_details(details) ==
    LET de == GetMap(details, "detected_extensions")
    IN  IF GetStr(de, "posted_at") # "" THEN de["posted_at"] ELSE NA

UNKNOWN_DAYS == 999

posted_days(time_posted) ==
    IF time_posted = "" \/ time_posted = NA THEN UNKNOWN_DAYS
    ELSE LET s == Lower(Strip(time_posted))
         IN  IF Contains(s, "just posted") \/ Contains(s, "today") THEN 0
             ELSE IF Contains(s, "yesterday") THEN 1
             ELSE IF ReMatches(s, "hour") THEN 0
             ELSE IF ReMatches(s, "day") THEN ParseInt(ReGroup(s, "day"))
             ELSE IF ReMatches(s, "week") THEN ParseInt(ReGroup(s, "week")) * 7
             ELSE UNKNOWN_DAYS

looks_food_industry(job) ==
    LET text == Lower(GetStr(job, "title") \o " " \o GetStr(job, "company_name")
                      \o " " \o GetStr(job, "description"))
    IN  \E h \in FOOD_HINTS : Contains(text, h)

(***************************************************************************)
(* normalize_row                                                           *)
(***************************************************************************)
\* OrElse with the default forgotten.
OrElseNoDefault(a, b) == a

\* Python's `a or b` on strings
OrElse(a, b) == IF a # "" THEN a ELSE b

\* Python's truth value of a mapping
Truthy(map) == DOMAIN map # {}

RowKeys ==
    {"job_id", "title", "company name", "pay", "time posted", "location", "source",
     "link to apply"}

\* Lines 223-232: the values taken from the search result itself.
job_id_of(job) == OrElse(GetStr(job, "job_id"), NA)

\* Line 235: whether normalize_row calls serpapi_google_jobs_listing.
NeedsDetails(job) ==
    /\ job_id_of(job) # NA
    /\ \/ safe_pay(job) = NA
       \/ safe_time_posted(job) = NA
       \/ safe_apply_link(job) = NA

\* Enriched without the `== "N/A"` tests of lines 238, 240 and 242.
EnrichedOverwrite(primary, fetched, details, from_details) ==
    IF fetched /\ DOMAIN details # {}
    THEN (IF from_details # "" THEN from_details ELSE primary)
    ELSE primary

\* Lines 237-243: a value after the detail record was looked at.  `fetched`
\* says whether the call of line 236 was made, `details` is what it returned
\* and `from_details` what the matching *_from_details extractor makes of it.
Enriched(primary, fetched, details, from_details) ==
    IF fetched /\ Truthy(details) /\ primary = NA
    THEN OrElse(from_details, primary)
    ELSE primary

\* Lines 222-254, given what the detail fetch (if any) returned.
normalize_row(job, fetched, details) ==
    LET pay == Enriched(safe_pay(job), fetched, details, safe_pay_from_details(details))
        time_posted ==
            Enriched(safe_time_posted(job), fetched, details,
                     safe_time_posted_from_details(details))
        apply_link ==
            Enriched(safe_apply_link(job), fetched, details,
                     safe_apply_link_from_details(details))
        source_norm == normalize_source(GetStr(job, "via"))
    IN  [k \in RowKeys |->
            CASE k = "job_id" -> job_id_of(job)
              [] k = "title" -> OrElse(GetStr(job, "title"), NA)
              [] k = "company name" -> OrElse(GetStr(job, "company_name"), NA)
              [] k = "pay" -> OrElse(pay, NA)
              [] k = "time posted" -> OrElse(time_posted, NA)
              [] k = "location" -> OrElse(GetStr(job, "location"), NA)
              [] k = "source" -> OrElse(source_norm, NA)
              [] k = "link to apply" -> OrElse(apply_link, NA)]

(***************************************************************************)
(* build_queries, dedupe, the recency filter, the sort, the sheet          *)
(***************************************************************************)
QUALIFIERS ==
    <<"food", "HACCP", "SQF", "FSQA", "GMP", "food manufacturing", "food processing">>

build_queries ==
    [n \in 1..(Len(ROLE_KEYWORDS) * Len(QUALIFIERS)) |->
        "\"" \o ROLE_KEYWORDS[((n - 1) \div Len(QUALIFIERS)) + 1] \o "\" "
             \o QUALIFIERS[((n - 1) % Len(QUALIFIERS)) + 1]]

\* Line 278
DedupeKey(r) ==
    OrElse(r["job_id"], r["title"] \o "|" \o r["company name"] \o "|" \o r["location"])

\* dedupe keeping the last row of each key instead of the first.
RECURSIVE KeepLastLoop(_, _, _)
KeepLastLoop(rows, i, out) ==
    IF i > Len(rows) THEN out
    ELSE IF \E j \in (i + 1)..Len(rows) : DedupeKey(rows[j]) = DedupeKey(rows[i])
         THEN KeepLastLoop(rows, i + 1, out)
         ELSE KeepLastLoop(rows, i + 1, Append(out, rows[i]))

dedupe_keep_last(rows) == KeepLastLoop(rows, 1, <<>>)

RECURSIVE DedupeLoop(_, _, _, _)
DedupeLoop(rows, i, seen, out) ==
    IF i > Len(rows) THEN out
    ELSE IF DedupeKey(rows[i]) \in seen THEN DedupeLoop(rows, i + 1, seen, out)
    ELSE DedupeLoop(rows, i + 1, seen \cup {DedupeKey(rows[i])}, Append(out, rows[i]))

dedupe(rows) == DedupeLoop(rows, 1, {}, <<>>)

RECENT_DAYS == 7

SortKey(r) == posted_days(r["time posted"])

\* Line 357
IsRecent(r) == SortKey(r) <= RECENT_DAYS

\* InsertByKey placing an element before the elements of equal key.
RECURSIVE InsertByKeyUnstable(_, _)
InsertByKeyUnstable(sorted, r) ==
    IF sorted = <<>> THEN <<r>>
    ELSE IF SortKey(sorted[Len(sorted)]) < SortKey(r) THEN Append(sorted, r)
    ELSE Append(InsertByKeyUnstable(SubSeq(sorted, 1, Len(sorted) - 1), r),
                sorted[Len(sorted)])

\* list.sort(key=...) is stable: an element goes after every element already
\* placed whose key is not greater than its own.
RECURSIVE InsertByKey(_, _)
InsertByKey(sorted, r) ==
    IF sorted = <<>> THEN <<r>>
    ELSE IF SortKey(sorted[Len(sorted)]) <= SortKey(r) THEN Append(sorted, r)
    ELSE Append(InsertByKey(SubSeq(sorted, 1, Len(sorted) - 1), r), sorted[Len(sorted)])

RECURSIVE SortLoop(_, _, _)
SortLoop(rows, i, sorted) ==
    IF i > Len(rows) THEN sorted ELSE SortLoop(rows, i + 1, InsertByKey(sorted, rows[i]))

sort_by_posted_days(rows) == SortLoop(rows, 1, <<>>)

headers ==
    <<"title", "company name", "pay", "time posted", "location", "source", "link to apply">>

\* Lines 296-297: one sheet line per row, the cells in header order.
create_excel(rows) ==
    [i \in 1..Len(rows) |-> [h \in 1..Len(headers) |-> rows[i][headers[h]]]]

(***************************************************************************)
(* The HTTP layer as the two clients see it                                *)
(***************************************************************************)
RETRY_STATUSES == {429, 502, 503, 504}
SEARCH_MAX_ATTEMPTS == 5
LISTING_MAX_ATTEMPTS == 4

\* What requests.get can raise on a transport failure, and what
\* `except requests.RequestException` catches.
TransportErrors == {"ConnectionError", "Timeout"}
RequestExceptions == TransportErrors \cup {"HTTPError"}

\* The detail fetcher retrying every answer that is not a 200.
listing_retries_non200(status) == status # 200

\* Lines 65 and 91
search_retries(status) == status \in RETRY_STATUSES
listing_retries(status) == status \in RETRY_STATUSES

search_catches(exc) == exc \in RequestExceptions
listing_catches(exc) == exc \in RequestExceptions

\* r.raise_for_status(): the exception raised, "" when none
raise_for_status(status) == IF status >= 400 /\ status < 600 THEN "HTTPError" ELSE ""

NoRequest == [kind |-> "none"]
Response(status) == [kind |-> "response", status |-> status]
Failure(exc) == [kind |-> "exception", exc |-> exc]

(***************************************************************************)
(* The environment: what the API may answer                                *)
(***************************************************************************)
MaxQueries == 2
MaxDiscovered == 2

Statuses == {200, 404, 500} \cup RETRY_STATUSES

JobComplete ==
    [job_id |-> "J1", title |-> "Food Safety Supervisor", company_name |-> "Acme",
     location |-> "Austin, TX", via |-> "Indeed",
     detected_extensions |-> [posted_at |-> "3 days ago", salary |-> "$30 an hour"],
     related_links |-> <<[link |-> "https://a.example/1"]>>]

JobSameId ==
    [job_id |-> "J1", title |-> "Food Safety Supervisor II", company_name |-> "Acme",
     location |-> "Austin, TX", via |-> "via LinkedIn",
     extensions |-> <<"Full-time", "$31 an hour">>,
     related_links |-> <<[link |-> "https://a.example/2"]>>]

JobPartial ==
    [job_id |-> "J2", title |-> "FSQA Supervisor", company_name |-> "Bakery Co",
     location |-> "", via |-> "ZipRecruiter",
     extensions |-> <<"Full-time", "Posted 3 days ago">>,
     related_links |-> <<[link |-> "careers.example.com/job"]>>]

JobNoId ==
    [title |-> "HACCP Lead", company_name |-> "Acme", location |-> "Reno, NV",
     via |-> "Glassdoor", extensions |-> <<"Today", "$25 an hour">>,
     related_links |-> <<[link |-> "https://g.example/3"]>>]

JobNoIdOther ==
    [job_id |-> "", title |-> "Sanitation Lead", company_name |-> "Acme",
     location |-> "Reno, NV", via |-> "INDEED",
     detected_extensions |-> [posted_at |-> "2 days ago"],
     related_links |-> <<[link |-> "https://i.example/4"]>>]

JobOtherSource ==
    [job_id |-> "J3", title |-> "Food Safety Supervisor", company_name |-> "Acme",
     via |-> "Monster"]

JobOtherDomain ==
    [job_id |-> "J4", title |-> "Office Manager", company_name |-> "Acme",
     description |-> "Front desk", via |-> "Indeed"]

RawJobs ==
    {JobComplete, JobSameId, JobPartial, JobNoId, JobNoIdOther, JobOtherSource,
     JobOtherDomain}

DetailFull ==
    [detected_extensions |-> [posted_at |-> "1 day ago", salary |-> "$28 an hour"],
     apply_options |-> <<[link |-> "https://apply.example/5"]>>]

DetailPartial ==
    [detected_extensions |-> [posted_at |-> "2 weeks ago", salary |-> ""],
     apply_options |-> <<[link |-> "apply.example/6"]>>]

DetailBodies == {EmptyMap, DetailFull, DetailPartial}

\* Every sequence over S of length at most n.
RECURSIVE SeqsUpTo(_, _)
SeqsUpTo(S, n) ==
    IF n <= 0 THEN {<<>>}
    ELSE LET shorter == SeqsUpTo(S, n - 1)
         IN  shorter \cup {Append(q, e) : q \in shorter, e \in S}

\* The JSON bodies a 200 answer of the search engine may carry when `room`
\* more jobs may still be discovered in this run.
SearchBodies(room) ==
    {EmptyMap} \cup {[jobs_results |-> js] : js \in SeqsUpTo(RawJobs, room)}

queries == SubSeq(build_queries, 1, MaxQueries)

\* The search results normalize_row is tried on by itself: every field
\* missing, empty or filled, independently of the others.
Field(k, values) == {EmptyMap} \cup {[f \in {k} |-> v] : v \in values}

UnitJobs ==
    {a @@ b @@ c @@ d @@ e @@ f @@ g @@ h :
        a \in Field("job_id", {"", "J1"}),
        b \in Field("title", {"", "HACCP Lead"}),
        c \in Field("company_name", {"Acme"}),
        d \in {[location |-> ""], [location |-> "Reno, NV"]},
        e \in Field("via", {"Indeed", "Monster"}),
        f \in Field("detected_extensions",
                    {EmptyMap, [salary |-> "$30 an hour"], [posted_at |-> "3 days ago"],
                     [salary |-> "$30 an hour", posted_at |-> "3 days ago"]}),
        g \in Field("extensions", {<<"Full-time">>, <<"$25 an hour", "Today">>}),
        h \in Field("related_links",
                    {<<EmptyMap>>, <<[link |-> "careers.example.com/job"]>>,
                     <<[link |-> "https://x.example/1"]>>})}

(***************************************************************************)
(* State                                                                   *)
(***************************************************************************)
VARIABLES
    pc,          \* where main() is
    qi,          \* index of the query of the loop of line 340
    jobs,        \* the list line 341 got
    ji,          \* index of the job of the loop of line 343
    all_rows,    \* the list lines 338-352 build
    deduped,     \* all_rows after line 354
    recent,      \* all_rows after line 357
    batch,       \* all_rows after line 360, as handed to create_excel
    sheet,       \* the lines create_excel writes below the header
    s_attempt,   \* serpapi_google_jobs: the loop variable of line 61
    s_requests,  \* serpapi_google_jobs: requests issued by the running call
    s_http_error, \* serpapi_google_jobs: the call got an error status outside the retry set
    s_succeeded, \* serpapi_google_jobs: line 71 was reached
    s_result,    \* serpapi_google_jobs: the value returned
    d_caller,    \* serpapi_google_jobs_listing: who called
    d_job_id,    \* serpapi_google_jobs_listing: its argument
    d_attempt,   \* serpapi_google_jobs_listing: the loop variable of line 87
    d_requests,  \* serpapi_google_jobs_listing: requests issued by the running call
    d_last,      \* serpapi_google_jobs_listing: how the last request ended
    d_result,    \* serpapi_google_jobs_listing: the value returned
    discovered,  \* history: every job the searches have returned, in order
    norm_idx,    \* history: for each call of normalize_row, the index of its job in discovered
    fetch_idx    \* history: for each call of serpapi_google_jobs_listing, that index (0: a direct call)

main_vars == <<pc, qi, jobs, ji, all_rows, deduped, recent, batch, sheet>>
search_vars == <<s_attempt, s_requests, s_http_error, s_succeeded, s_result>>
listing_vars == <<d_caller, d_job_id, d_attempt, d_requests, d_last, d_result>>
history_vars == <<discovered, norm_idx, fetch_idx>>
vars == <<main_vars, search_vars, listing_vars, history_vars>>

\* serpapi_google_jobs has returned: its locals are gone.
SearchIdle ==
    /\ s_attempt' = 0
    /\ s_requests' = 0
    /\ s_http_error' = FALSE
    /\ s_succeeded' = FALSE
    /\ s_result' = <<>>

\* serpapi_google_jobs_listing has returned: its locals are gone.
ListingIdle ==
    /\ d_caller' = ""
    /\ d_job_id' = ""
    /\ d_attempt' = 0
    /\ d_requests' = 0
    /\ d_last' = NoRequest
    /\ d_result' = EmptyMap

Init ==
    /\ pc = "query"
    /\ qi = 1
    /\ jobs = <<>>
    /\ ji = 1
    /\ all_rows = <<>>
    /\ deduped = <<>>
    /\ recent = <<>>
    /\ batch = <<>>
    /\ sheet = <<>>
    /\ s_attempt = 0
    /\ s_requests = 0
    /\ s_http_error = FALSE
    /\ s_succeeded = FALSE
    /\ s_result = <<>>
    /\ d_caller = ""
    /\ d_job_id = ""
    /\ d_attempt = 0
    /\ d_requests = 0
    /\ d_last = NoRequest
    /\ d_result = EmptyMap
    /\ discovered = <<>>
    /\ norm_idx = <<>>
    /\ fetch_idx = <<>>

(***************************************************************************)
(* serpapi_google_jobs                                                     *)
(***************************************************************************)
\* Line 341: main calls serpapi_google_jobs(q, LOCATION, num=50).
NextQuery ==
    /\ pc = "query"
    /\ qi <= Len(queries)
    /\ pc' = "search"
    /\ s_attempt' = 1
    /\ UNCHANGED <<qi, jobs, ji, all_rows, deduped, recent, batch, sheet>>
    /\ UNCHANGED <<s_requests, s_http_error, s_succeeded, s_result>>
    /\ UNCHANGED <<listing_vars, history_vars>>

\* SearchNextAttempt with range(1, max_attempts + 2).
SearchNextAttemptOffByOne ==
    IF s_attempt <= SEARCH_MAX_ATTEMPTS
    THEN /\ s_attempt' = s_attempt + 1
         /\ pc' = "search"
         /\ UNCHANGED <<s_result, s_succeeded>>
    ELSE /\ pc' = "search_ret"
         /\ s_result' = <<>>
         /\ UNCHANGED <<s_attempt, s_succeeded>>

\* time.sleep(2 ** attempt), then the next turn of the loop of line 61, or
\* line 76 when there is none.
SearchNextAttempt ==
    IF s_attempt < SEARCH_MAX_ATTEMPTS
    THEN /\ s_attempt' = s_attempt + 1
         /\ pc' = "search"
         /\ UNCHANGED <<s_result, s_succeeded>>
    ELSE /\ pc' = "search_ret"
         /\ s_result' = <<>>
         /\ UNCHANGED <<s_attempt, s_succeeded>>

\* An exception leaves the try block of lines 62-71: line 73 catches it, or it
\* reaches main, which catches nothing.
SearchExcept(exc) ==
    IF search_catches(exc)
    THEN SearchNextAttempt
    ELSE /\ pc' = "raised"
         /\ UNCHANGED <<s_attempt, s_result, s_succeeded>>

\* Lines 63-71: the request is answered.
SearchResponse ==
    /\ pc = "search"
    /\ \E status \in Statuses :
          /\ s_requests' = s_requests + 1
          /\ s_http_error' = (s_http_error \/ (status \notin RETRY_STATUSES
                                                 /\ status >= 400))
          /\ IF search_retries(status) THEN SearchNextAttempt
             ELSE IF raise_for_status(status) # ""
                  THEN SearchExcept(raise_for_status(status))
             ELSE \E body \in SearchBodies(MaxDiscovered - Len(discovered)) :
                     /\ pc' = "search_ret"
                     /\ s_result' = GetList(body, "jobs_results")
                     /\ s_succeeded' = TRUE
                     /\ UNCHANGED s_attempt
    /\ UNCHANGED <<qi, jobs, ji, all_rows, deduped, recent, batch, sheet>>
    /\ UNCHANGED <<listing_vars, history_vars>>

\* Line 63 raises: the request got no answer.
SearchTransportFailure ==
    /\ pc = "search"
    /\ \E exc \in TransportErrors :
          /\ s_requests' = s_requests + 1
          /\ SearchExcept(exc)
    /\ UNCHANGED <<qi, jobs, ji, all_rows, deduped, recent, batch, sheet>>
    /\ UNCHANGED <<s_http_error, listing_vars, history_vars>>

\* Line 341: the assignment of the value returned.
SearchReturn ==
    /\ pc = "search_ret"
    /\ jobs' = s_result
    /\ ji' = 1
    /\ pc' = "jobs"
    /\ SearchIdle
    /\ discovered' = discovered \o s_result
    /\ UNCHANGED <<qi, all_rows, deduped, recent, batch, sheet>>
    /\ UNCHANGED <<norm_idx, fetch_idx, listing_vars>>

(***************************************************************************)
(* serpapi_google_jobs_listing                                             *)
(***************************************************************************)
\* Lines 79-85: the call, with the early return of line 81.
ListingCall(job_id, caller) ==
    /\ d_caller' = caller
    /\ d_job_id' = job_id
    /\ d_requests' = 0
    /\ d_last' = NoRequest
    /\ d_result' = EmptyMap
    /\ IF job_id = ""
       THEN d_attempt' = 0 /\ pc' = "detail_ret"
       ELSE d_attempt' = 1 /\ pc' = "detail"

\* time.sleep(2 ** attempt), then the next turn of the loop of line 87, or
\* line 103 when there is none.
ListingNextAttempt ==
    IF d_attempt < LISTING_MAX_ATTEMPTS
    THEN /\ d_attempt' = d_attempt + 1
         /\ pc' = "detail"
         /\ UNCHANGED d_result
    ELSE /\ pc' = "detail_ret"
         /\ d_result' = EmptyMap
         /\ UNCHANGED d_attempt

ListingExcept(exc) ==
    IF listing_catches(exc)
    THEN ListingNextAttempt
    ELSE /\ pc' = "raised"
         /\ UNCHANGED <<d_attempt, d_result>>

\* Lines 89-98: the request is answered.
ListingResponse ==
    /\ pc = "detail"
    /\ \E status \in Statuses :
          /\ d_requests' = d_requests + 1
          /\ d_last' = Response(status)
          /\ IF listing_retries(status) THEN ListingNextAttempt
             ELSE IF status # 200
                  THEN /\ pc' = "detail_ret"
                       /\ d_result' = EmptyMap
                       /\ UNCHANGED d_attempt
             ELSE \E body \in DetailBodies :
                     /\ pc' = "detail_ret"
                     /\ d_result' = body
                     /\ UNCHANGED d_attempt
    /\ UNCHANGED <<qi, jobs, ji, all_rows, deduped, recent, batch, sheet>>
    /\ UNCHANGED <<d_caller, d_job_id, search_vars, history_vars>>

\* Line 89 raises: the request got no answer.
ListingTransportFailure ==
    /\ pc = "detail"
    /\ \E exc \in TransportErrors :
          /\ d_requests' = d_requests + 1
          /\ d_last' = Failure(exc)
          /\ ListingExcept(exc)
    /\ UNCHANGED <<qi, jobs, ji, all_rows, deduped, recent, batch, sheet>>
    /\ UNCHANGED <<d_caller, d_job_id, search_vars, history_vars>>

(***************************************************************************)
(* normalize_row, as main calls it                                         *)
(***************************************************************************)
\* The place in `discovered` of the job the loop of line 343 is at.
CurrentIndex == Len(discovered) - Len(jobs) + ji

\* Lines 222-254 when line 235 is false: the row is returned at once, and
\* line 352 appends it.
NormalizeRowDirect(job) ==
    /\ ~NeedsDetails(job)
    /\ all_rows' = Append(all_rows, normalize_row(job, FALSE, EmptyMap))
    /\ norm_idx' = Append(norm_idx, CurrentIndex)
    /\ ji' = ji + 1
    /\ pc' = "jobs"
    /\ UNCHANGED <<qi, jobs, deduped, recent, batch, sheet>>
    /\ UNCHANGED <<discovered, fetch_idx, search_vars, listing_vars>>

\* Whether a value is the "N/A" placeholder, as 0 or 1.
Missing(v) == IF v = NA THEN 1 ELSE 0

\* NormalizeRowFetch calling the detail fetch once per missing field.
NormalizeRowFetchPerField(job) ==
    /\ NeedsDetails(job)
    /\ ListingCall(job_id_of(job), "normalize_row")
    /\ norm_idx' = Append(norm_idx, CurrentIndex)
    /\ fetch_idx' = fetch_idx \o
          [n \in 1..(Missing(safe_pay(job)) + Missing(safe_time_posted(job))
                        + Missing(safe_apply_link(job))) |-> CurrentIndex]
    /\ UNCHANGED <<qi, jobs, ji, all_rows, deduped, recent, batch, sheet>>
    /\ UNCHANGED <<discovered, search_vars>>

\* Lines 222-236 when line 235 is true: the detail fetch is called.
NormalizeRowFetch(job) ==
    /\ NeedsDetails(job)
    /\ ListingCall(job_id_of(job), "normalize_row")
    /\ norm_idx' = Append(norm_idx, CurrentIndex)
    /\ fetch_idx' = Append(fetch_idx, CurrentIndex)
    /\ UNCHANGED <<qi, jobs, ji, all_rows, deduped, recent, batch, sheet>>
    /\ UNCHANGED <<discovered, search_vars>>

\* Lines 237-254 once the detail fetch has returned, and line 352.
NormalizeRowFinish ==
    /\ pc = "detail_ret"
    /\ d_caller = "normalize_row"
    /\ all_rows' = Append(all_rows, normalize_row(jobs[ji], TRUE, d_result))
    /\ ji' = ji + 1
    /\ pc' = "jobs"
    /\ ListingIdle
    /\ UNCHANGED <<qi, jobs, deduped, recent, batch, sheet>>
    /\ UNCHANGED <<search_vars, history_vars>>

(***************************************************************************)
(* main                                                                    *)
(***************************************************************************)
\* The two filters of lines 345-350 joined by `or`.
PassesEitherFilter(job) ==
    is_allowed_source(GetStr(job, "via")) \/ looks_food_industry(job)

PassesFilters(job) ==
    is_allowed_source(GetStr(job, "via")) /\ looks_food_industry(job)

\* Lines 345-350: a job one of the two filters drops.
SkipJob ==
    /\ pc = "jobs"
    /\ ji <= Len(jobs)
    /\ ~PassesFilters(jobs[ji])
    /\ ji' = ji + 1
    /\ UNCHANGED <<pc, qi, jobs, all_rows, deduped, recent, batch, sheet>>
    /\ UNCHANGED <<search_vars, listing_vars, history_vars>>

\* Line 352 for a job that needs no detail fetch.
KeepJobDirect ==
    /\ pc = "jobs"
    /\ ji <= Len(jobs)
    /\ PassesFilters(jobs[ji])
    /\ NormalizeRowDirect(jobs[ji])

\* Line 352 for a job that needs one.
KeepJobFetch ==
    /\ pc = "jobs"
    /\ ji <= Len(jobs)
    /\ PassesFilters(jobs[ji])
    /\ NormalizeRowFetch(jobs[ji])

\* The loop of line 343 ends: the next query.
JobsDone ==
    /\ pc = "jobs"
    /\ ji > Len(jobs)
    /\ qi' = qi + 1
    /\ pc' = "query"
    /\ UNCHANGED <<jobs, ji, all_rows, deduped, recent, batch, sheet>>
    /\ UNCHANGED <<search_vars, listing_vars, history_vars>>

\* Line 354
Dedupe ==
    /\ pc = "query"
    /\ qi > Len(queries)
    /\ deduped' = dedupe(all_rows)
    /\ pc' = "recency"
    /\ UNCHANGED <<qi, jobs, ji, all_rows, recent, batch, sheet>>
    /\ UNCHANGED <<search_vars, listing_vars, history_vars>>

\* Line 357
RecencyFilter ==
    /\ pc = "recency"
    /\ recent' = SelectSeq(deduped, IsRecent)
    /\ pc' = "sort"
    /\ UNCHANGED <<qi, jobs, ji, all_rows, deduped, batch, sheet>>
    /\ UNCHANGED <<search_vars, listing_vars, history_vars>>

\* Line 360
Sort ==
    /\ pc = "sort"
    /\ batch' = sort_by_posted_days(recent)
    /\ pc' = "export"
    /\ UNCHANGED <<qi, jobs, ji, all_rows, deduped, recent, sheet>>
    /\ UNCHANGED <<search_vars, listing_vars, history_vars>>

\* Lines 365-381: the sheet is written and mailed.
Export ==
    /\ pc = "export"
    /\ sheet' = create_excel(batch)
    /\ pc' = "done"
    /\ UNCHANGED <<qi, jobs, ji, all_rows, deduped, recent, batch>>
    /\ UNCHANGED <<search_vars, listing_vars, history_vars>>

(***************************************************************************)
(* normalize_row and serpapi_google_jobs_listing called by themselves      *)
(***************************************************************************)
InitUnit ==
    /\ pc = "unit"
    /\ qi = 1
    /\ jobs \in {<<job>> : job \in UnitJobs}
    /\ discovered = jobs
    /\ ji = 1
    /\ all_rows = <<>>
    /\ deduped = <<>>
    /\ recent = <<>>
    /\ batch = <<>>
    /\ sheet = <<>>
    /\ s_attempt = 0
    /\ s_requests = 0
    /\ s_http_error = FALSE
    /\ s_succeeded = FALSE
    /\ s_result = <<>>
    /\ d_caller = ""
    /\ d_job_id = ""
    /\ d_attempt = 0
    /\ d_requests = 0
    /\ d_last = NoRequest
    /\ d_result = EmptyMap
    /\ norm_idx = <<>>
    /\ fetch_idx = <<>>

\* normalize_row(job) for a job that needs no detail fetch
UnitNormalizeDirect ==
    /\ pc = "unit"
    /\ NormalizeRowDirect(jobs[ji])

\* normalize_row(job) for a job that needs one
UnitNormalizeFetch ==
    /\ pc = "unit"
    /\ NormalizeRowFetch(jobs[ji])

\* serpapi_google_jobs_listing(job_id) for the job's identifier, empty or not
UnitListing ==
    /\ pc = "unit"
    /\ ListingCall(GetStr(jobs[ji], "job_id"), "direct")
    /\ fetch_idx' = Append(fetch_idx, 0)
    /\ UNCHANGED <<qi, jobs, ji, all_rows, deduped, recent, batch, sheet>>
    /\ UNCHANGED <<discovered, norm_idx, search_vars>>

NextUnit ==
    \/ UnitNormalizeDirect
    \/ UnitNormalizeFetch
    \/ UnitListing
    \/ ListingResponse
    \/ ListingTransportFailure
    \/ NormalizeRowFinish

SpecUnit == InitUnit /\ [][NextUnit]_vars

Next ==
    \/ NextQuery
    \/ SearchResponse
    \/ SearchTransportFailure
    \/ SearchReturn
    \/ SkipJob
    \/ KeepJobDirect
    \/ KeepJobFetch
    \/ ListingResponse
    \/ ListingTransportFailure
    \/ NormalizeRowFinish
    \/ JobsDone
    \/ Dedupe
    \/ RecencyFilter
    \/ Sort
    \/ Export

Spec == Init /\ [][Next]_vars

(***************************************************************************)
(* Properties                                                              *)
(***************************************************************************)
AfterDedupe == {"recency", "sort", "export", "done"}
AfterSort == {"export", "done"}

NoJobId(r) == r["job_id"] = NA
Triple(r) == <<r["title"], r["company name"], r["location"]>>

\* The job whose detail record the n-th call of the detail fetcher asked for.
FetchedJob(n) == discovered[fetch_idx[n]]

\* C1: after deduplication, rows without job_id are keyed by (title, company
\* name, location): every such row of the list has a row with its three fields
\* in the result, and no two such rows of the result have the same three fields.
C1_NoIdKeyedByTriple ==
    pc \in AfterDedupe =>
        /\ \A i \in 1..Len(all_rows) :
              NoJobId(all_rows[i]) =>
                  \E k \in 1..Len(deduped) :
                      NoJobId(deduped[k]) /\ Triple(deduped[k]) = Triple(all_rows[i])
        /\ \A k, l \in 1..Len(deduped) :
              (NoJobId(deduped[k]) /\ NoJobId(deduped[l])
                  /\ Triple(deduped[k]) = Triple(deduped[l])) => k = l

\* C2 as stated: over one run no two calls of the detail fetcher are for the
\* same job identifier.
C2_OncePerJobId ==
    \A m, n \in 1..Len(fetch_idx) :
        GetStr(FetchedJob(m), "job_id") = GetStr(FetchedJob(n), "job_id") => m = n

\* C2 as amended: over one run the detail fetcher is called at most once for
\* each result a search returned, in the order the results were returned, and
\* each call asks for the identifier of its result.
C2_OncePerDiscoveredRecord ==
    /\ \A n \in 1..Len(fetch_idx) : fetch_idx[n] \in 1..Len(discovered)
    /\ \A m, n \in 1..Len(fetch_idx) : m < n => fetch_idx[m] < fetch_idx[n]
    /\ pc \in {"detail", "detail_ret"} =>
           d_job_id = GetStr(FetchedJob(Len(fetch_idx)), "job_id")

C2_SameIdFetchedTwice ==
    /\ pc = "done"
    /\ Len(fetch_idx) = 2
    /\ GetStr(FetchedJob(1), "job_id") = GetStr(FetchedJob(2), "job_id")

\* C3: a call of the search client that got an HTTP error status outside
\* {429, 502, 503, 504} returns the empty list.
C3_HttpErrorReturnsEmpty ==
    (pc = "search_ret" /\ s_http_error) => s_result = <<>>

\* C4: a call of the search client never raises, has issued at most 5
\* requests, is over once the 5th has been issued, and returns the empty list
\* when no attempt succeeded.
C4_SearchBoundedAndTotal ==
    /\ pc # "raised"
    /\ s_requests <= 5
    /\ pc = "search" => s_requests < 5
    /\ (pc = "search_ret" /\ ~s_succeeded) => s_result = <<>>

C4_AllFiveAttemptsFailed ==
    /\ pc = "search_ret"
    /\ s_requests = 5
    /\ s_http_error
    /\ ~s_succeeded

\* A request that ended in a transport failure or in a status of the retry set.
EndedRetryable(outcome) ==
    \/ outcome["kind"] = "exception"
    \/ outcome["kind"] = "response" /\ outcome["status"] \in {429, 502, 503, 504}

\* C5: a call of the detail fetcher has issued at most 4 requests; it goes on
\* to another request only after a transport failure or a status of the retry
\* set, and after one of those it stops only when 4 requests were issued; a
\* status that is neither 200 nor of the retry set ends it with the empty
\* mapping; with an empty job_id it issues no request.
C5_ListingRetryShape ==
    /\ d_requests <= 4
    /\ pc = "detail" =>
           /\ d_requests < 4
           /\ d_last = NoRequest \/ EndedRetryable(d_last)
    /\ (pc = "detail_ret" /\ d_job_id = "") =>
           d_requests = 0 /\ d_result = EmptyMap
    /\ (pc = "detail_ret" /\ d_job_id # "") =>
           /\ d_requests >= 1
           /\ EndedRetryable(d_last) => (d_requests = 4 /\ d_result = EmptyMap)
           /\ (~EndedRetryable(d_last) /\ d_last["status"] # 200) => d_result = EmptyMap

C5_ErrorStatusAfterRetries ==
    /\ pc = "detail_ret"
    /\ d_requests = 3
    /\ d_last = Response(404)
    /\ d_result = EmptyMap

\* The smallest index of a row of all_rows with the job_id of row r.
FirstWithId(r) ==
    CHOOSE i \in 1..Len(all_rows) :
        /\ all_rows[i]["job_id"] = r["job_id"]
        /\ \A j \in 1..(i - 1) : all_rows[j]["job_id"] # r["job_id"]

\* C6: the rows are built in discovery order, one per result that was kept;
\* after deduplication each job_id other than "N/A" that occurs has exactly one
\* row, the first built with it, and the rows that survive are in the order
\* they were built in.
C6_FirstSeenWinsInOrder ==
    pc \in AfterDedupe =>
        /\ Len(norm_idx) = Len(all_rows)
        /\ \A m, n \in 1..Len(norm_idx) : m < n => norm_idx[m] < norm_idx[n]
        /\ \A i \in 1..Len(all_rows) :
              all_rows[i] \in {normalize_row(discovered[norm_idx[i]], fetched, details) :
                                 fetched \in BOOLEAN, details \in DetailBodies}
        /\ \A i \in 1..Len(all_rows) :
              all_rows[i]["job_id"] # NA =>
                  Cardinality({k \in 1..Len(deduped) :
                                  deduped[k]["job_id"] = all_rows[i]["job_id"]}) = 1
        /\ \A k \in 1..Len(deduped) :
              /\ \E i \in 1..Len(all_rows) : all_rows[i]["job_id"] = deduped[k]["job_id"]
              /\ deduped[k] = all_rows[FirstWithId(deduped[k])]
        /\ \A k, l \in 1..Len(deduped) :
              k < l => FirstWithId(deduped[k]) < FirstWithId(deduped[l])

C6_DuplicateIdCollapsed ==
    /\ pc = "done"
    /\ Len(all_rows) = 2
    /\ all_rows[1]["job_id"] # NA
    /\ all_rows[1]["job_id"] = all_rows[2]["job_id"]
    /\ all_rows[1] # all_rows[2]
    /\ deduped = <<all_rows[1]>>

\* The rows of a list whose recency value is d, in the order of the list.
WithDays(rows, d) ==
    LET HasDays(r) == posted_days(r["time posted"]) = d IN SelectSeq(rows, HasDays)

\* C7: the batch handed to the spreadsheet writer holds only rows of recency
\* at most 7, in ascending order of recency, and for each recency value the
\* same rows as the deduplicated list, in the same order.
C7_RecentSortedStable ==
    pc \in AfterSort =>
        /\ \A i \in 1..Len(batch) : posted_days(batch[i]["time posted"]) \in 0..7
        /\ \A i, j \in 1..Len(batch) :
              i < j => posted_days(batch[i]["time posted"])
                           <= posted_days(batch[j]["time posted"])
        /\ \A d \in 0..7 : WithDays(batch, d) = WithDays(deduped, d)

C7_NewerRowMovedFirst ==
    /\ pc = "done"
    /\ Len(deduped) = 2
    /\ batch = <<deduped[2], deduped[1]>>
    /\ Len(sheet) = 2

\* The seven columns of the sheet.
Exported ==
    {"title", "company name", "pay", "time posted", "location", "source", "link to apply"}

\* C8: every row normalize_row returns has each of the seven exported fields,
\* and none of them is the empty string.
C8_RowFieldsNeverEmpty ==
    \A i \in 1..Len(all_rows) :
        \A h \in Exported : h \in DOMAIN all_rows[i] /\ all_rows[i][h] # ""

C8_SparseJobPartlyEnriched ==
    /\ Len(all_rows) = 1
    /\ Len(fetch_idx) = 1
    /\ all_rows[1]["title"] = NA
    /\ all_rows[1]["location"] = NA
    /\ all_rows[1]["source"] = NA
    /\ all_rows[1]["pay"] = NA
    /\ all_rows[1]["link to apply"] = NA
    /\ all_rows[1]["time posted"] = "2 weeks ago"

\* The via text names one of the four sources, whatever the case.
NamesAllowedSource(job) ==
    \E x \in {"indeed", "linkedin", "glassdoor", "ziprecruiter"} :
        Contains(Lower(GetStr(job, "via")), x)

KeptByFilters(job) == NamesAllowedSource(job) /\ looks_food_industry(job)

\* The rows of a list are rows of all_rows.
FromAllRows(rows) ==
    \A k \in 1..Len(rows) : \E i \in 1..Len(all_rows) : rows[k] = all_rows[i]

\* C9: every call of the detail fetcher and every call of normalize_row is for
\* a result that names an allowed source and passes the domain-relevance
\* predicate, and every row of the lists main builds comes from such a call.
C9_FiltersBeforeNormalize ==
    /\ \A n \in 1..Len(fetch_idx) : KeptByFilters(FetchedJob(n))
    /\ \A n \in 1..Len(norm_idx) : KeptByFilters(discovered[norm_idx[n]])
    /\ Len(all_rows) <= Len(norm_idx)
    /\ \A i \in 1..Len(all_rows) :
          /\ all_rows[i]["job_id"] = job_id_of(discovered[norm_idx[i]])
          /\ all_rows[i]["source"] = normalize_source(GetStr(discovered[norm_idx[i]], "via"))
    /\ FromAllRows(deduped) /\ FromAllRows(recent) /\ FromAllRows(batch)

C9_DroppedBeforeFetch ==
    /\ pc = "done"
    /\ Len(discovered) = 2
    /\ ~NamesAllowedSource(discovered[1])
    /\ looks_food_industry(discovered[1])
    /\ GetStr(discovered[1], "job_id") # ""
    /\ fetch_idx = <<2>>
    /\ Len(batch) = 1

\* One of pay, time posted and apply link is missing from the search result.
SomeFieldMissing(job) ==
    safe_pay(job) = NA \/ safe_time_posted(job) = NA \/ safe_apply_link(job) = NA

\* C10: one call of normalize_row calls the detail fetcher once when the job
\* has a job_id and one of pay, time posted and apply link is "N/A" in the
\* search result, and not at all otherwise; a field that was not "N/A" in the
\* search result has that value in the row.
C10_OneFetchPrimaryKept ==
    Len(norm_idx) = 1 =>
        LET job == discovered[norm_idx[1]]
        IN  /\ Len(fetch_idx) =
                  (IF GetStr(job, "job_id") # "" /\ SomeFieldMissing(job) THEN 1 ELSE 0)
            /\ Len(all_rows) = 1 =>
                  /\ safe_pay(job) # NA => all_rows[1]["pay"] = safe_pay(job)
                  /\ safe_time_posted(job) # NA =>
                         all_rows[1]["time posted"] = safe_time_posted(job)
                  /\ safe_apply_link(job) # NA =>
                         all_rows[1]["link to apply"] = safe_apply_link(job)

C10_PayKeptTimeFilled ==
    /\ pc = "jobs"
    /\ Len(fetch_idx) = 1
    /\ Len(all_rows) = 1
    /\ all_rows[1]["pay"] = "$30 an hour"
    /\ all_rows[1]["time posted"] = "1 day ago"
    /\ all_rows[1]["link to apply"] = "https://x.example/1"

====
